---- MODULE Spec2Model ----
(***************************************************************************)
(* A model of the spatial world engine of bomberman-socket: the World      *)
(* (grid), its registry of WorldObjects and the cell buffer `_map`, with   *)
(* the operations init / installObject / uninstallObject / placeObject /   *)
(* displaceObject / moveObject and the private helpers restructureMap and  *)
(* setMapCell, translated statement by statement from the TypeScript.      *)
(***************************************************************************)
EXTENDS Integers, Sequences, FiniteSets, TLC

\* ------------------------------------------------------------------------
\* Bounds of the model (the world extents are constructor arguments).
Width == 3
Height == 2
\* The number of calls made on one World that the model follows.
MaxCalls == 3
\* The largest number of positions handed to one lookupByLayer call.
MaxLookups == 2

\* Program constants.
WorldObjectLayerCount == 3
UNDERGROUND == 0
GROUND == 1
OVERGROUND == 2

Layers == 0 .. (WorldObjectLayerCount - 1)

\* The value of an empty cell (`null`) and of an absent argument (`undefined`).
Null == "null"
NoPos == [x |-> -9, y |-> -9]

\* The world objects that callers create.  Identity, layer and size are
\* readonly after construction.
ObjectIDs == {"a", "b", "c"}

\* The players a game session drafts and adds.
PlayerIDs == {"p", "q"}

\* Every object the model follows.
IDs == ObjectIDs \cup PlayerIDs

ObjLayer(id) == CASE id = "a" -> GROUND
                  [] id = "b" -> GROUND
                  [] id \in PlayerIDs -> GROUND
                  [] OTHER    -> UNDERGROUND

ObjSize(id) == CASE id = "b" -> [width |-> 2, height |-> 1]
                 [] OTHER    -> [width |-> 1, height |-> 1]

\* The class of each object: "a" is a Brick (GROUND, 1x1), the players are
\* Players (GROUND, 1x1, drafted at (0, 0)), the others are plain
\* WorldObjects.
ObjKind(id) == IF id = "a" THEN "brick"
               ELSE IF id \in PlayerIDs THEN "player"
               ELSE "object"

\* The position handed to the constructor of each object.
ObjInitPosition(id) == CASE id = "b" -> [x |-> 1, y |-> 0]
                         [] OTHER    -> [x |-> 0, y |-> 0]

\* The order in which the constructor is handed its objects (the iteration
\* order of the registry Map).
ObjOrder == <<"a", "b", "c", "p", "q">>

\* The directions a player faces (PlayerFacing).
UP == "U"
DOWN == "D"
LEFT == "L"
RIGHT == "R"
Facings == {UP, DOWN, LEFT, RIGHT}

\* Positions a caller may request: every in-bounds one and one beyond each
\* edge of the world.
InBounds == [x : 0 .. (Width - 1), y : 0 .. (Height - 1)]
Positions == InBounds \cup {[x |-> -1, y |-> 0], [x |-> Width, y |-> 0],
                            [x |-> 0, y |-> -1], [x |-> 0, y |-> Height]}

\* The subscribers of the observables Clock.interval returns.
Subscribers == {"s1", "s2"}

\* `new Clock()`: `_isDisposed` is false; nobody has subscribed, no timer is
\* scheduled and no tick has been emitted.  `disposeCalled` records that
\* Clock[Symbol.dispose] has been called, and `late` the subscribers that
\* subscribed after that.
NewClock ==
    [isDisposed |-> FALSE, disposeCalled |-> FALSE, subscribed |-> {},
     late |-> {}, closed |-> {}, scheduled |-> {},
     ticks |-> [s \in Subscribers |-> 0]]

Max(p, q) == IF p >= q THEN p ELSE q
Min(p, q) == IF p <= q THEN p ELSE q

VARIABLES
    isInitialized,   \* World._isInitialized
    gameSession,     \* World._gameSession is set (a notification sink exists)
    objects,         \* World.objects: the identities in the registry
    map,             \* World._map: map[y][column]
    position,        \* WorldObject.position of every object
    objInitialized,  \* WorldObject._isInitialized of every object
    stage,           \* the last lifecycle event each object emitted
    objEventCenter,  \* WorldObject._eventCenter of every object is set
    subscriptions,   \* the live event$ subscriptions of every object
    players,         \* GameSession._players: the identities in the player map
    facing,          \* Player.facing of every player
    statePlayers,    \* GameState._players: the entries, in order
    clock,           \* the Clock and the subscribers of its intervals
    last,            \* the last call made on the World and its outcome
    calls            \* the number of calls made so far

vars == <<isInitialized, gameSession, objects, map, position,
          objInitialized, stage, objEventCenter, subscriptions, players,
          facing, statePlayers, clock, last, calls>>

\* ------------------------------------------------------------------------
\* The cell buffer.

\* The constructor's buffer: `height` rows of `width * WorldObjectLayerCount`
\* columns, all null.
EmptyMap == [y \in 0 .. (Height - 1) |->
               [i \in 0 .. (Width * WorldObjectLayerCount - 1) |-> Null]]

\* The column the code uses for (x, layer).
ColumnOf(x, layer) == x + layer

\* lookupByLayer for one position.
Lookup(m, layer, x, y) == m[y][ColumnOf(x, layer)]

\* lookupByLayer for a sequence of positions.
LookupByLayer(m, layer, ps) == [k \in 1 .. Len(ps) |-> Lookup(m, layer, ps[k].x, ps[k].y)]

\* The other occupants setMapCell collects at (x, y): the non-null values
\* of the columns x + index, index # layer, in increasing index.
RECURSIVE Intersected(_, _, _, _, _)
Intersected(m, x, y, layer, index) ==
    IF index >= WorldObjectLayerCount THEN << >>
    ELSE LET rest == Intersected(m, x, y, layer, index + 1)
         IN  IF index = layer THEN rest
             ELSE IF m[y][x + index] # Null THEN <<m[y][x + index]>> \o rest
             ELSE rest

\* The running state of one restructureMap call: the buffer, what was thrown
\* (if anything), the notifications sent and the cells written so far.
Run(m, initialized, session) ==
    [map |-> m, isInitialized |-> initialized, gameSession |-> session,
     thrown |-> "none", existing |-> Null, notes |-> << >>, log |-> << >>]

\* A setMapCell that, when it finds other occupants, notifies and returns
\* without having written the cell.
SetMapCellNotifyingUnwritten(st, x, y, layer, id) ==
    IF x < 0 \/ y < 0 \/ x >= Width \/ y >= Height
    THEN [st EXCEPT !.thrown = "bounds"]
    ELSE IF id = Null
    THEN [st EXCEPT !.map[y][ColumnOf(x, layer)] = Null,
                    !.log = Append(@, <<x, y, Null>>)]
    ELSE IF st.map[y][ColumnOf(x, layer)] # Null
    THEN [st EXCEPT !.thrown = "overlap",
                    !.existing = st.map[y][ColumnOf(x, layer)]]
    ELSE LET m2 == [st.map EXCEPT ![y][ColumnOf(x, layer)] = id]
             others == Intersected(m2, x, y, layer, 0)
         IN  IF st.isInitialized /\ Len(others) > 0 /\ st.gameSession
             THEN [st EXCEPT !.notes = Append(@, <<id, others>>)]
             ELSE [st EXCEPT !.map = m2, !.log = Append(@, <<x, y, id>>)]

\* setMapCell(position, layer, id) applied to a running state.
SetMapCell(st, x, y, layer, id) ==
    IF x < 0 \/ y < 0 \/ x >= Width \/ y >= Height
    THEN [st EXCEPT !.thrown = "bounds"]
    ELSE IF id = Null
    THEN [st EXCEPT !.map[y][ColumnOf(x, layer)] = Null,
                    !.log = Append(@, <<x, y, Null>>)]
    ELSE IF st.map[y][ColumnOf(x, layer)] # Null
    THEN [st EXCEPT !.thrown = "overlap",
                    !.existing = st.map[y][ColumnOf(x, layer)]]
    ELSE LET m2 == [st.map EXCEPT ![y][ColumnOf(x, layer)] = id]
             others == Intersected(m2, x, y, layer, 0)
         IN  IF ~st.isInitialized
             THEN [st EXCEPT !.map = m2, !.log = Append(@, <<x, y, id>>)]
             ELSE [st EXCEPT !.map = m2,
                             !.log = Append(@, <<x, y, id>>),
                             !.notes = IF Len(others) > 0 /\ st.gameSession
                                       THEN Append(@, <<id, others>>)
                                       ELSE @]

\* The setMapCell calls of a pair of nested loops
\*   for (x = x0; x < x1; x++) for (y = y0; y < y1; y++) setMapCell({x,y}, layer, v)
\* in the order the loops make them.
Strip(x0, x1, y0, y1, v) ==
    LET w == Max(0, x1 - x0)
        h == Max(0, y1 - y0)
    IN  [k \in 1 .. (w * h) |->
            [x |-> x0 + ((k - 1) \div h), y |-> y0 + ((k - 1) % h), v |-> v]]

\* A move that clears the whole old footprint and writes the whole new one.
MoveWritesRewritingAll(id, size, old, new) ==
    Strip(old.x, old.x + size.width, old.y, old.y + size.height, Null)
 \o Strip(new.x, new.x + size.width, new.y, new.y + size.height, id)

\* A move that forgets the strip of the old footprint left of the overlap.
MoveWritesKeepingLeftStrip(id, size, old, new) ==
    LET width == size.width
        height == size.height
        overlapX == Max(old.x, new.x)
        overlapY == Max(old.y, new.y)
        overlapWidth == Min(old.x + width, new.x + width) - overlapX
        overlapHeight == Min(old.y + height, new.y + height) - overlapY
    IN  Strip(overlapX + overlapWidth, old.x + width, old.y, old.y + height, Null)
     \o Strip(overlapX, overlapX + overlapWidth, old.y, overlapY, Null)
     \o Strip(overlapX, overlapX + overlapWidth, overlapY + overlapHeight, old.y + height, Null)
     \o Strip(new.x, overlapX, new.y, new.y + height, id)
     \o Strip(overlapX + overlapWidth, new.x + width, new.y, new.y + height, id)
     \o Strip(overlapX, overlapX + overlapWidth, new.y, overlapY, id)
     \o Strip(overlapX, overlapX + overlapWidth, overlapY + overlapHeight, new.y + height, id)

\* The setMapCell calls restructureMap makes when both positions are given.
MoveWrites(id, size, old, new) ==
    LET width == size.width
        height == size.height
        overlapX == Max(old.x, new.x)
        overlapY == Max(old.y, new.y)
        overlapWidth == Min(old.x + width, new.x + width) - overlapX
        overlapHeight == Min(old.y + height, new.y + height) - overlapY
    IN  Strip(old.x, overlapX, old.y, old.y + height, Null)
     \o Strip(overlapX + overlapWidth, old.x + width, old.y, old.y + height, Null)
     \o Strip(overlapX, overlapX + overlapWidth, old.y, overlapY, Null)
     \o Strip(overlapX, overlapX + overlapWidth, overlapY + overlapHeight, old.y + height, Null)
     \o Strip(new.x, overlapX, new.y, new.y + height, id)
     \o Strip(overlapX + overlapWidth, new.x + width, new.y, new.y + height, id)
     \o Strip(overlapX, overlapX + overlapWidth, new.y, overlapY, id)
     \o Strip(overlapX, overlapX + overlapWidth, overlapY + overlapHeight, new.y + height, id)

\* A fresh placement that leaves out the last column of the footprint.
WritesShortOfLastColumn(id, size, old, new) ==
    IF old # NoPos /\ new = NoPos
    THEN Strip(old.x, old.x + size.width, old.y, old.y + size.height, Null)
    ELSE IF old = NoPos /\ new # NoPos
    THEN Strip(new.x, new.x + size.width - 1, new.y, new.y + size.height, id)
    ELSE MoveWrites(id, size, old, new)

\* The setMapCell calls of restructureMap, by branch.
Writes(id, size, old, new) ==
    IF old # NoPos /\ new = NoPos
    THEN Strip(old.x, old.x + size.width, old.y, old.y + size.height, Null)
    ELSE IF old = NoPos /\ new # NoPos
    THEN Strip(new.x, new.x + size.width, new.y, new.y + size.height, id)
    ELSE MoveWrites(id, size, old, new)

\* The running state after the first k calls of ws; a throw ends the run.
RECURSIVE ApplyWrites(_, _, _, _)
ApplyWrites(st, ws, layer, k) ==
    IF k = 0 THEN st
    ELSE LET prev == ApplyWrites(st, ws, layer, k - 1)
         IN  IF prev.thrown # "none" THEN prev
             ELSE SetMapCell(prev, ws[k].x, ws[k].y, layer, ws[k].v)

\* A bounds check that forgets the right edge of the world.
OutOfBoundsButForRightEdge(size, new) ==
    \/ new.x < 0
    \/ new.y < 0
    \/ new.y + size.height > Height

\* The bounds check at the head of restructureMap.
OutOfBounds(size, new) ==
    \/ new.x < 0
    \/ new.y < 0
    \/ new.x + size.width > Width
    \/ new.y + size.height > Height

\* restructureMap: the final running state and the boolean it returns
\* (ok is meaningful when nothing was thrown).
RestructureMap(w, id, layer, size, old, new) ==
    LET st == Run(w.map, w.isInitialized, w.gameSession)
    IN  IF old = NoPos /\ new = NoPos
        THEN [run |-> [st EXCEPT !.thrown = "invalid"], ok |-> FALSE]
        ELSE IF new # NoPos /\ OutOfBounds(size, new)
        THEN [run |-> st, ok |-> FALSE]
        ELSE LET ws == Writes(id, size, old, new)
             IN  [run |-> ApplyWrites(st, ws, layer, Len(ws)), ok |-> TRUE]

\* ------------------------------------------------------------------------
\* The World and its objects as one value, so that the methods compose.
Here == [isInitialized |-> isInitialized, gameSession |-> gameSession,
         objects |-> objects, map |-> map, position |-> position,
         objInitialized |-> objInitialized, stage |-> stage,
         objEventCenter |-> objEventCenter, subscriptions |-> subscriptions,
         players |-> players, facing |-> facing, statePlayers |-> statePlayers,
         clock |-> clock]

Become(w) ==
    /\ isInitialized' = w.isInitialized
    /\ gameSession' = w.gameSession
    /\ objects' = w.objects
    /\ map' = w.map
    /\ position' = w.position
    /\ objInitialized' = w.objInitialized
    /\ stage' = w.stage
    /\ objEventCenter' = w.objEventCenter
    /\ subscriptions' = w.subscriptions
    /\ players' = w.players
    /\ facing' = w.facing
    /\ statePlayers' = w.statePlayers
    /\ clock' = w.clock

\* What a method did: the world it leaves, what it returned (ret: "true",
\* "false", "none", "pos" with the position in at, or "throw" with the error
\* in err) and, for an overlap, the identity found in the cell.
Outcome(w, ret, err, existing) ==
    [w |-> w, ret |-> ret, at |-> NoPos, err |-> err, existing |-> existing]

\* A method that returned a position.
Returned(w, at) ==
    [w |-> w, ret |-> "pos", at |-> at, err |-> "none", existing |-> Null]

\* The record of a call on the World.
Call(op, id, pos, r) ==
    [op |-> op, id |-> id, pos |-> pos, ret |-> r.ret, at |-> r.at,
     err |-> r.err, existing |-> r.existing]

NoCall == [op |-> "new", id |-> Null, pos |-> NoPos, ret |-> "none",
           at |-> NoPos, err |-> "none", existing |-> Null]

\* An init that binds the context it is given again on an object that is
\* already initialized.
ObjectInitRebinding(w, id, eventCenter) ==
    [w EXCEPT !.objInitialized[id] = TRUE, !.stage[id] = "initialized",
              !.objEventCenter[id] = eventCenter]

\* WorldObject.init(props): nothing on an initialized object; otherwise the
\* object is marked, takes the context (of which the model keeps whether
\* there is an event center) and emits "initialized".
ObjectInit(w, id, eventCenter) ==
    IF w.objInitialized[id] THEN w
    ELSE [w EXCEPT !.objInitialized[id] = TRUE, !.stage[id] = "initialized",
                   !.objEventCenter[id] = eventCenter]

\* The test of World.initObject: the object reports itself not initialized.
CallsInit(w, id) == ~w.objInitialized[id]

\* Player.init(props) throws "Invalid init properties" before anything else
\* when the context lacks the session, the clock or the event center: the
\* World hands over its own, which init(gameSession) sets together.
PlayerInitThrows(w, id) == ObjKind(id) = "player" /\ ~w.gameSession

\* World.initObject(object) throws what the object's init throws.
InitThrows(w, id) == CallsInit(w, id) /\ PlayerInitThrows(w, id)

\* World.initObject(object): object.init with the World's own context.
InitObject(w, id) ==
    IF CallsInit(w, id) THEN ObjectInit(w, id, w.gameSession) ELSE w

\* An install that registers the object again when it is already registered.
InstallObjectReplacing(w, id) ==
    IF ~w.isInitialized THEN Outcome(w, "throw", "notinit", Null)
    ELSE Outcome(InitObject([w EXCEPT !.objects = @ \cup {id}], id),
                 "true", "none", Null)

\* World.installObject(object): the object is registered, and then
\* initialized.
InstallObjectOp(w, id) ==
    IF ~w.isInitialized THEN Outcome(w, "throw", "notinit", Null)
    ELSE IF id \in w.objects THEN Outcome(w, "false", "none", Null)
    ELSE LET w2 == [w EXCEPT !.objects = @ \cup {id}]
         IN  IF InitThrows(w2, id)
             THEN Outcome(w2, "throw", "invalidinit", Null)
             ELSE Outcome(InitObject(w2, id), "true", "none", Null)

\* An uninstall that removes the object from the registry and does not
\* dispose of it.
UninstallObjectWithoutDispose(w, id) ==
    IF ~w.isInitialized THEN Outcome(w, "throw", "notinit", Null)
    ELSE IF id \notin w.objects THEN Outcome(w, "false", "none", Null)
    ELSE Outcome([w EXCEPT !.objects = @ \ {id}], "true", "none", Null)

\* An uninstall that throws for an identity that is not registered.
UninstallObjectThrowingOnUnknown(w, id) ==
    IF ~w.isInitialized THEN Outcome(w, "throw", "notinit", Null)
    ELSE IF id \notin w.objects THEN Outcome(w, "throw", "invalid", Null)
    ELSE Outcome([w EXCEPT !.objects = @ \ {id}, !.stage[id] = "disposed"],
                 "true", "none", Null)

\* The entries of GameState._players once the players ids have emitted
\* "disposed" (the handler capturePlayer installs filters the entry out).
Forget(entries, ids) == SelectSeq(entries, LAMBDA e : e.id \notin ids)

\* World.uninstallObject(objectID), with the object's dispose.
UninstallObjectOp(w, id) ==
    IF ~w.isInitialized THEN Outcome(w, "throw", "notinit", Null)
    ELSE IF id \notin w.objects THEN Outcome(w, "false", "none", Null)
    ELSE Outcome([w EXCEPT !.objects = @ \ {id}, !.stage[id] = "disposed",
                           !.statePlayers = Forget(@, {id})],
                 "true", "none", Null)

\* The subscriptions of an object after its `placed`: Brick.placed and
\* Player.placed subscribe to the event center's event$ when the object has
\* one (a player subscribes to its own keycodes at the same time).
Subscribed(w, id) ==
    IF ObjKind(id) \in {"brick", "player"} /\ w.objEventCenter[id]
    THEN [w.subscriptions EXCEPT ![id] = @ + 1]
    ELSE w.subscriptions

\* World.placeObject(objectID, position?), with WorldObject.placed.
PlaceObjectOp(w, id, pos) ==
    IF ~w.isInitialized THEN Outcome(w, "throw", "notinit", Null)
    ELSE IF id \notin w.objects THEN Outcome(w, "none", "none", Null)
    ELSE LET target == IF pos # NoPos THEN pos ELSE w.position[id]
             r == RestructureMap(w, id, ObjLayer(id), ObjSize(id), NoPos, target)
             w2 == [w EXCEPT !.map = r.run.map]
         IN  IF r.run.thrown # "none"
             THEN Outcome(w2, "throw", r.run.thrown, r.run.existing)
             ELSE IF ~r.ok THEN Outcome(w2, "none", "none", Null)
             ELSE IF ~w.objInitialized[id]
             THEN Outcome(w2, "throw", "objnotinit", Null)
             ELSE Returned([w2 EXCEPT !.position[id] = target,
                                      !.stage[id] = "placed",
                                      !.subscriptions = Subscribed(w, id)],
                           target)

\* A displace that answers false, instead of throwing, on a World that is
\* not initialized.
DisplaceObjectQuietly(w, id) ==
    IF ~w.isInitialized THEN Outcome(w, "false", "none", Null)
    ELSE IF id \notin w.objects THEN Outcome(w, "false", "none", Null)
    ELSE LET r == RestructureMap(w, id, ObjLayer(id), ObjSize(id),
                                 w.position[id], NoPos)
             w2 == [w EXCEPT !.map = r.run.map]
         IN  IF r.run.thrown # "none"
             THEN Outcome(w2, "throw", r.run.thrown, r.run.existing)
             ELSE IF ~r.ok THEN Outcome(w2, "false", "none", Null)
             ELSE Outcome([w2 EXCEPT !.stage[id] = "displaced",
                                     !.subscriptions[id] = 0],
                          "true", "none", Null)

\* World.displaceObject(objectID), with WorldObject.takeout, whose
\* "displaced" event runs the unsubscribe handlers Brick.placed installed.
DisplaceObjectOp(w, id) ==
    IF ~w.isInitialized THEN Outcome(w, "throw", "notinit", Null)
    ELSE IF id \notin w.objects THEN Outcome(w, "false", "none", Null)
    ELSE LET r == RestructureMap(w, id, ObjLayer(id), ObjSize(id),
                                 w.position[id], NoPos)
             w2 == [w EXCEPT !.map = r.run.map]
         IN  IF r.run.thrown # "none"
             THEN Outcome(w2, "throw", r.run.thrown, r.run.existing)
             ELSE IF ~r.ok THEN Outcome(w2, "false", "none", Null)
             ELSE Outcome([w2 EXCEPT !.stage[id] = "displaced",
                                     !.subscriptions[id] = 0],
                          "true", "none", Null)

\* World.moveObject(objectID, newPosition).
MoveObjectOp(w, id, pos) ==
    IF ~w.isInitialized THEN Outcome(w, "none", "none", Null)
    ELSE IF id \notin w.objects THEN Outcome(w, "none", "none", Null)
    ELSE LET r == RestructureMap(w, id, ObjLayer(id), ObjSize(id),
                                 w.position[id], pos)
             w2 == [w EXCEPT !.map = r.run.map]
         IN  IF r.run.thrown # "none"
             THEN Outcome(w2, "throw", r.run.thrown, r.run.existing)
             ELSE IF ~r.ok THEN Outcome(w2, "none", "none", Null)
             ELSE Returned(w2, pos)

\* An install-and-place that places whatever installObject returned.
InstallAndPlaceRegardless(w, id) ==
    LET i == InstallObjectOp(w, id)
    IN  IF i.ret = "throw" THEN i
        ELSE PlaceObjectOp(i.w, id, NoPos)

\* World.installAndPlaceObject(object): installObject, and then placeObject
\* at the object's own position when that returned true.
InstallAndPlaceObjectOp(w, id) ==
    LET i == InstallObjectOp(w, id)
    IN  IF i.ret = "throw" THEN i
        ELSE IF i.ret # "true" THEN Outcome(i.w, "none", "none", Null)
        ELSE PlaceObjectOp(i.w, id, NoPos)

\* World.uninstallAndDisplaceObject(objectID): uninstallObject, and then
\* displaceObject when that returned true.
UninstallAndDisplaceObjectOp(w, id) ==
    LET u == UninstallObjectOp(w, id)
    IN  IF u.ret = "throw" THEN u
        ELSE IF u.ret # "true" THEN Outcome(u.w, "false", "none", Null)
        ELSE DisplaceObjectOp(u.w, id)

\* A teardown that disposes the objects but keeps them in the registry.
DisposeKeepingRegistry(w) ==
    Outcome([w EXCEPT !.isInitialized = FALSE,
                      !.map = << >>,
                      !.stage = [id \in IDs |->
                                   IF id \in w.objects THEN "disposed" ELSE @[id]]],
            "none", "none", Null)

\* World[Symbol.dispose](): the "disposed" handler the constructor installs
\* empties the buffer (`_map = []`), disposes every registered object and
\* clears the registry.
DisposeOp(w) ==
    Outcome([w EXCEPT !.isInitialized = FALSE,
                      !.map = << >>,
                      !.stage = [id \in IDs |->
                                   IF id \in w.objects THEN "disposed" ELSE @[id]],
                      !.statePlayers = Forget(@, w.objects),
                      !.objects = {}],
            "none", "none", Null)

\* The forEach of World.init over the first k objects of the registry: each
\* is initialized and placed at its own position; a throw ends the loop.
RECURSIVE InitObjects(_, _)
InitObjects(w, k) ==
    IF k = 0 THEN Outcome(w, "none", "none", Null)
    ELSE LET prev == InitObjects(w, k - 1)
             id == ObjOrder[k]
         IN  IF prev.ret = "throw" \/ id \notin w.objects THEN prev
             ELSE IF InitThrows(prev.w, id)
             THEN Outcome(prev.w, "throw", "invalidinit", Null)
             ELSE LET p == PlaceObjectOp(InitObject(prev.w, id), id, NoPos)
                  IN  IF p.ret = "throw" THEN p
                      ELSE Outcome(p.w, "none", "none", Null)

\* World.init(gameSession?).
InitOp(w, session) ==
    InitObjects([w EXCEPT !.isInitialized = TRUE,
                          !.gameSession = IF session THEN TRUE ELSE @],
                Len(ObjOrder))

\* ------------------------------------------------------------------------
\* The state after `new World(props)`: props.objects is any set of objects.
Init ==
    /\ isInitialized = FALSE
    /\ gameSession = FALSE
    /\ objects \in SUBSET ObjectIDs
    /\ map = EmptyMap
    /\ position = [id \in IDs |-> ObjInitPosition(id)]
    /\ objInitialized = [id \in IDs |-> FALSE]
    /\ stage = [id \in IDs |-> "created"]
    /\ objEventCenter = [id \in IDs |-> FALSE]
    /\ subscriptions = [id \in IDs |-> 0]
    /\ players = {}
    /\ facing = [id \in PlayerIDs |-> RIGHT]
    /\ statePlayers = << >>
    /\ clock = NewClock
    /\ last = NoCall
    /\ calls = 0

\* The caller makes one more call.
Counted == calls < MaxCalls /\ calls' = calls + 1

\* init() is called on a World that has not been disposed of (disposal
\* ends the life of the World).
WorldInit(session) ==
    LET r == InitOp(Here, session)
    IN  /\ Counted
        /\ map # << >>
        /\ Become(r.w)
        /\ last' = Call("init", Null, NoPos, r)

\* A caller installs objects it has not disposed of (a new object has a new
\* identity).
InstallObject(id) ==
    LET r == InstallObjectOp(Here, id)
    IN  /\ Counted
        /\ stage[id] # "disposed"
        /\ Become(r.w)
        /\ last' = Call("install", id, NoPos, r)

UninstallObject(id) ==
    LET r == UninstallObjectOp(Here, id)
    IN  /\ Counted
        /\ Become(r.w)
        /\ last' = Call("uninstall", id, NoPos, r)

PlaceObject(id, pos) ==
    LET r == PlaceObjectOp(Here, id, pos)
    IN  /\ Counted
        /\ Become(r.w)
        /\ last' = Call("place", id, pos, r)

DisplaceObject(id) ==
    LET r == DisplaceObjectOp(Here, id)
    IN  /\ Counted
        /\ Become(r.w)
        /\ last' = Call("displace", id, NoPos, r)

MoveObject(id, pos) ==
    LET r == MoveObjectOp(Here, id, pos)
    IN  /\ Counted
        /\ Become(r.w)
        /\ last' = Call("move", id, pos, r)

UninstallAndDisplaceObject(id) ==
    LET r == UninstallAndDisplaceObjectOp(Here, id)
    IN  /\ Counted
        /\ Become(r.w)
        /\ last' = Call("uninstallAndDisplace", id, NoPos, r)

InstallAndPlaceObject(id) ==
    LET r == InstallAndPlaceObjectOp(Here, id)
    IN  /\ Counted
        /\ stage[id] # "disposed"
        /\ Become(r.w)
        /\ last' = Call("installAndPlace", id, NoPos, r)

Dispose ==
    LET r == DisposeOp(Here)
    IN  /\ Counted
        /\ Become(r.w)
        /\ last' = Call("dispose", Null, NoPos, r)

\* One call on the World by its single caller; init is called with a game
\* session when sessions holds TRUE and without one when it holds FALSE.
Step(sessions) ==
    \/ \E session \in sessions : WorldInit(session)
    \/ \E id \in ObjectIDs : InstallObject(id)
    \/ \E id \in ObjectIDs : UninstallObject(id)
    \/ \E id \in ObjectIDs : \E pos \in Positions \cup {NoPos} : PlaceObject(id, pos)
    \/ \E id \in ObjectIDs : DisplaceObject(id)
    \/ \E id \in ObjectIDs : \E pos \in Positions : MoveObject(id, pos)
    \/ \E id \in ObjectIDs : UninstallAndDisplaceObject(id)
    \/ \E id \in ObjectIDs : InstallAndPlaceObject(id)
    \/ Dispose

\* A World used on its own, as the tests use it: init() without a session.
Next == Step({FALSE})

Spec == Init /\ [][Next]_vars

\* A World owned by a game session: init(gameSession), so that setMapCell
\* has an event center to notify.
NextInSession == Step({TRUE})

SpecInSession == Init /\ [][NextInSession]_vars

TypeOK ==
    /\ isInitialized \in BOOLEAN
    /\ objects \subseteq IDs
    /\ \A id \in DOMAIN position : position[id] \in Positions
    /\ players \subseteq PlayerIDs
    /\ \A id \in PlayerIDs : facing[id] \in Facings
    /\ \A k \in DOMAIN statePlayers : statePlayers[k].id \in PlayerIDs

\* ------------------------------------------------------------------------
\* Vocabulary of the properties.

\* The cells (x, y) of the footprint of an object of this size at pos.
Footprint(pos, size) ==
    {c \in [x : pos.x .. (pos.x + size.width - 1),
            y : pos.y .. (pos.y + size.height - 1)] : TRUE}

FootprintOf(id, pos) == Footprint(pos, ObjSize(id))

\* Every (x, y) of the world.
Cells == [x : 0 .. (Width - 1), y : 0 .. (Height - 1)]

InGrid(id, pos) == FootprintOf(id, pos) \subseteq Cells

\* The object is where pos says: every cell of that footprint, on the
\* object's layer, reads as the object.
Occupies(m, id, pos) ==
    /\ InGrid(id, pos)
    /\ \A c \in FootprintOf(id, pos) : Lookup(m, ObjLayer(id), c.x, c.y) = id

\* Every cell of the set reads as empty on the layer.
AllEmpty(m, layer, cs) == \A c \in cs : Lookup(m, layer, c.x, c.y) = Null

\* The step is the call op(id, pos).
Called(op, id, pos) ==
    /\ calls' = calls + 1
    /\ last'.op = op
    /\ last'.id = id
    /\ last'.pos = pos

\* The position placeObject resolves.
Target(id, pos) == IF pos # NoPos THEN pos ELSE position[id]

\* The objects carry the same data before and after the step.
ObjectsUnchanged ==
    UNCHANGED <<objects, position, objInitialized, stage, objEventCenter,
                subscriptions, facing>>

Blockers(id, pos) ==
    {o \in objects \ {id} :
        /\ ObjLayer(o) = ObjLayer(id)
        /\ stage[o] = "placed"
        /\ \E c \in FootprintOf(id, pos) : Lookup(map, ObjLayer(id), c.x, c.y) = o}

\* C2: placeObject onto a footprint (inside the world) that holds a cell
\* occupied on the same layer by a different placed object throws the
\* overlap error naming the incoming and an existing identity, and leaves
\* the cell buffer and every object's position as they were.
C2_OverlapLeavesGridUnchanged ==
    [][\A id \in ObjectIDs : \A pos \in Positions \cup {NoPos} :
        ( /\ Called("place", id, pos)
          /\ isInitialized
          /\ id \in objects
          /\ InGrid(id, Target(id, pos))
          /\ Blockers(id, Target(id, pos)) # {} )
        => ( /\ last'.ret = "throw"
             /\ last'.err = "overlap"
             /\ last'.existing # id
             /\ map' = map
             /\ position' = position )]_vars

\* C3: a moveObject that returns a position, made on an object that
\* occupies the footprint A of its stored position, towards a footprint B
\* inside the world whose cells outside A are empty, returns the new
\* position and leaves every cell of A \ B empty and every cell of B
\* reading as the object.
C3_MoveClearsOldSetsNew ==
    [][\A id \in {last'.id} \cap ObjectIDs :
       \A pos \in {last'.pos} \cap (Positions) :
        LET A == FootprintOf(id, position[id])
            B == FootprintOf(id, pos)
        IN  ( /\ Called("move", id, pos)
              /\ last'.ret = "pos"
              /\ id \in objects
              /\ Occupies(map, id, position[id])
              /\ InGrid(id, pos)
              /\ AllEmpty(map, ObjLayer(id), B \ A) )
            => ( /\ last'.at = pos
                 /\ AllEmpty(map', ObjLayer(id), A \ B)
                 /\ Occupies(map', id, pos) )]_vars

\* An object has just been moved to a footprint disjoint from the one of
\* its stored position, and reads in every cell of the new footprint and
\* in none of the old.
C3_Witness ==
    /\ last.op = "move"
    /\ last.ret = "pos"
    /\ last.id \in objects
    /\ FootprintOf(last.id, position[last.id]) \cap FootprintOf(last.id, last.pos) = {}
    /\ Occupies(map, last.id, last.pos)
    /\ AllEmpty(map, ObjLayer(last.id), FootprintOf(last.id, position[last.id]))

\* C4: a moveObject that returns a position changes, on the object's layer,
\* no cell outside A \cup B (A the footprint of the stored position, B the
\* new footprint, both inside the world); it clears only cells of A \ B,
\* sets only cells of B \ A, and makes |A \ B| + |B \ A| cell writes.
C4_MoveTouchesOnlyDifference ==
    [][\A id \in ObjectIDs : \A pos \in Positions :
        LET A == FootprintOf(id, position[id])
            B == FootprintOf(id, pos)
            log == RestructureMap(Here, id, ObjLayer(id), ObjSize(id),
                                  position[id], pos).run.log
        IN  ( /\ Called("move", id, pos)
              /\ last'.ret = "pos"
              /\ id \in objects
              /\ InGrid(id, position[id])
              /\ InGrid(id, pos) )
            => ( /\ \A c \in Cells \ (A \cup B) :
                      Lookup(map', ObjLayer(id), c.x, c.y)
                          = Lookup(map, ObjLayer(id), c.x, c.y)
                 /\ \A k \in 1 .. Len(log) :
                      LET c == [x |-> log[k][1], y |-> log[k][2]]
                      IN  IF log[k][3] = Null THEN c \in A \ B ELSE c \in B \ A
                 /\ Len(log) = Cardinality(A \ B) + Cardinality(B \ A) )]_vars

\* C5: during a moveObject of an object that occupies the footprint A of
\* its stored position towards an overlapping footprint B inside the world,
\* no setMapCell call addresses a cell of A \cap B, and after every one of
\* the calls (the buffer the move leaves being the one after the last of
\* them) each cell of A \cap B reads as the object.
C5_OverlapNeverWritten ==
    [][\A id \in {last'.id} \cap ObjectIDs :
       \A pos \in {last'.pos} \cap (Positions) :
        LET A == FootprintOf(id, position[id])
            B == FootprintOf(id, pos)
            ws == Writes(id, ObjSize(id), position[id], pos)
            st == Run(map, isInitialized, gameSession)
        IN  ( /\ Called("move", id, pos)
              /\ isInitialized
              /\ id \in objects
              /\ Occupies(map, id, position[id])
              /\ InGrid(id, pos)
              /\ A \cap B # {} )
            => ( /\ map' = ApplyWrites(st, ws, ObjLayer(id), Len(ws)).map
                 /\ \A k \in 1 .. Len(ws) :
                      [x |-> ws[k].x, y |-> ws[k].y] \notin A \cap B
                 /\ \A k \in 0 .. Len(ws) : \A c \in A \cap B :
                      Lookup(ApplyWrites(st, ws, ObjLayer(id), k).map,
                             ObjLayer(id), c.x, c.y) = id )]_vars

\* An object has just been moved to a footprint that overlaps, without
\* being, the footprint of its stored position, and reads in every cell of
\* the new footprint.
C5_Witness ==
    /\ last.op = "move"
    /\ last.ret = "pos"
    /\ last.id \in objects
    /\ last.pos # position[last.id]
    /\ FootprintOf(last.id, position[last.id]) \cap FootprintOf(last.id, last.pos) # {}
    /\ Occupies(map, last.id, last.pos)

\* C6: moveObject of a registered object to a position whose footprint is
\* not inside the world returns none and changes nothing: the cell buffer
\* and every object are as before, the object still reads in the cells it
\* occupied, and the same call made again has the same outcome.
C6_MoveOutOfBoundsChangesNothing ==
    [][\A id \in {last'.id} \cap ObjectIDs :
       \A pos \in {last'.pos} \cap (Positions) :
        ( /\ Called("move", id, pos)
          /\ isInitialized
          /\ id \in objects
          /\ ~InGrid(id, pos) )
        => ( /\ last'.ret = "none"
             /\ map' = map
             /\ ObjectsUnchanged
             /\ (Occupies(map, id, position[id]) => Occupies(map', id, position'[id]))
             /\ MoveObjectOp(MoveObjectOp(Here, id, pos).w, id, pos)
                    = MoveObjectOp(Here, id, pos) )]_vars

\* A placed object that occupies its footprint has just been refused a move
\* to a position outside the world.
C6_Witness ==
    /\ last.op = "move"
    /\ last.ret = "none"
    /\ isInitialized
    /\ last.id \in objects
    /\ ~InGrid(last.id, last.pos)
    /\ stage[last.id] = "placed"
    /\ Occupies(map, last.id, position[last.id])

\* C7: moveObject of an object that occupies its footprint towards a
\* footprint (inside the world) holding a cell occupied on the same layer
\* by a different placed object throws the overlap error and leaves the
\* cell buffer unchanged, the mover still reading in its old footprint.
C7_BlockedMoveLeavesGridUnchanged ==
    [][\A id \in ObjectIDs : \A pos \in Positions :
        ( /\ Called("move", id, pos)
          /\ isInitialized
          /\ id \in objects
          /\ Occupies(map, id, position[id])
          /\ InGrid(id, pos)
          /\ Blockers(id, pos) # {} )
        => ( /\ last'.ret = "throw"
             /\ last'.err = "overlap"
             /\ map' = map
             /\ Occupies(map', id, position[id]) )]_vars

\* C8: displaceObject of a placed object that occupies its footprint
\* returns true, empties every cell of the footprint on the object's layer,
\* leaves the stored position as it was, and leaves every other cell of
\* that layer and every cell of the other layers reading as before.
C8_DisplaceClearsOnlyFootprint ==
    [][\A id \in ObjectIDs :
        LET A == FootprintOf(id, position[id])
        IN  ( /\ Called("displace", id, NoPos)
              /\ isInitialized
              /\ id \in objects
              /\ stage[id] = "placed"
              /\ Occupies(map, id, position[id]) )
            => ( /\ last'.ret = "true"
                 /\ AllEmpty(map', ObjLayer(id), A)
                 /\ position' = position
                 /\ \A layer \in Layers : \A c \in Cells :
                      (layer # ObjLayer(id) \/ c \notin A)
                      => Lookup(map', layer, c.x, c.y) = Lookup(map, layer, c.x, c.y) )]_vars

\* C9: every registered object whose last lifecycle event is "placed" reads
\* in every cell of the footprint of its stored position on its own layer,
\* and in no other cell of any layer.
C9_OccupancyInvariant ==
    \A id \in objects :
        stage[id] = "placed"
        => ( /\ Occupies(map, id, position[id])
             /\ \A layer \in Layers : \A c \in Cells :
                  Lookup(map, layer, c.x, c.y) = id
                  => (layer = ObjLayer(id) /\ c \in FootprintOf(id, position[id])) )

\* C10: a placeObject or displaceObject of a one-cell object that succeeds
\* writes the single cell (x, y, layer) of the object, and every other
\* triple (x', y', layer') reads afterwards as it read before.
C10_DistinctTriplesDistinctCells ==
    [][\A id \in ObjectIDs : \A pos \in Positions \cup {NoPos} :
        LET at == IF last'.op = "place" THEN Target(id, pos) ELSE position[id]
        IN  ( /\ Called("place", id, pos) \/ Called("displace", id, pos)
              /\ last'.ret \in {"pos", "true"}
              /\ ObjSize(id) = [width |-> 1, height |-> 1]
              /\ InGrid(id, at) )
            => \A layer \in Layers : \A c \in Cells :
                 (layer # ObjLayer(id) \/ c # at)
                 => Lookup(map', layer, c.x, c.y) = Lookup(map, layer, c.x, c.y)]_vars

\* ------------------------------------------------------------------------
\* Notifications.

\* The identity a layer holds at (x, y): the cell's value when it is the
\* identity of an object of that layer.
Holds(m, layer, x, y) ==
    LET v == Lookup(m, layer, x, y)
    IN  IF v # Null /\ ObjLayer(v) = layer THEN v ELSE Null

\* The layers other than the object's own that hold an identity other than
\* the object's at (x, y).
OtherLayersHolding(m, id, c) ==
    {layer \in Layers \ {ObjLayer(id)} : Holds(m, layer, c.x, c.y) \notin {Null, id}}

\* No layer holds an identity other than the object's at (x, y).
ColumnFree(m, id, c) == \A layer \in Layers : Holds(m, layer, c.x, c.y) \in {Null, id}

\* The objectIntersect calls, <<initiator, others>>, of the call being made.
PlaceNotes(id, pos) ==
    RestructureMap(Here, id, ObjLayer(id), ObjSize(id), NoPos, Target(id, pos)).run.notes

MoveNotes(id, pos) ==
    RestructureMap(Here, id, ObjLayer(id), ObjSize(id), position[id], pos).run.notes

\* C11: in a World initialized with a game session, a placeObject that
\* returns a position for a one-cell object at (x, y) where exactly one other
\* layer holds an identity F (of another object) makes exactly one
\* objectIntersect call, with the placed object as initiator and F as the
\* only other occupant.
C11_OneOccupantOneNotification ==
    [][\A id \in ObjectIDs : \A pos \in Positions \cup {NoPos} :
        LET at == Target(id, pos)
            Ms == OtherLayersHolding(map, id, at)
        IN  ( /\ Called("place", id, pos)
              /\ last'.ret = "pos"
              /\ isInitialized
              /\ gameSession
              /\ ObjSize(id) = [width |-> 1, height |-> 1]
              /\ InGrid(id, at)
              /\ Cardinality(Ms) = 1 )
            => \E M \in Ms :
                 PlaceNotes(id, pos) = << <<id, <<Holds(map, M, at.x, at.y)>> >> >>]_vars

\* C12: in a World initialized with a game session, a placeObject or a
\* moveObject that returns a position, onto a footprint (inside the world)
\* at whose cells no layer holds another identity, makes no objectIntersect
\* call, whatever the neighbouring cells hold.
C12_FreeColumnsNoNotification ==
    [][\A id \in ObjectIDs : \A pos \in Positions \cup {NoPos} :
        LET at == IF last'.op = "place" THEN Target(id, pos) ELSE pos
        IN  ( /\ Called("place", id, pos) \/ Called("move", id, pos)
              /\ last'.ret = "pos"
              /\ isInitialized
              /\ gameSession
              /\ InGrid(id, at)
              /\ \A c \in FootprintOf(id, at) : ColumnFree(map, id, c) )
            => IF last'.op = "place"
               THEN PlaceNotes(id, pos) = << >>
               ELSE MoveNotes(id, pos) = << >>]_vars

\* ------------------------------------------------------------------------
\* Composition, registration and errors.

\* No cell of the buffer holds the identity.
Absent(m, id) == \A y \in DOMAIN m : \A i \in DOMAIN m[y] : m[y][i] # id

\* C13: uninstallAndDisplaceObject of a registered, placed object that
\* occupies its footprint returns true and leaves the object out of the
\* registry, disposed, and in no cell of the buffer; and the call returns
\* false only for an identity that is not registered.
C13_UninstallAndDisplaceClears ==
    [][\A id \in ObjectIDs :
        (Called("uninstallAndDisplace", id, NoPos) /\ isInitialized)
        => ( /\ ( id \in objects /\ stage[id] = "placed"
                  /\ Occupies(map, id, position[id]) )
                => ( /\ last'.ret = "true"
                     /\ id \notin objects'
                     /\ stage'[id] = "disposed"
                     /\ Absent(map', id) )
             /\ last'.ret = "false" => id \notin objects )]_vars

\* C14: installObject never writes a cell; on an initialized World it
\* returns true for an identity that is not registered and registers it, and
\* the same call made again returns false and changes nothing; for an
\* identity already registered it returns false and leaves the registry, the
\* buffer and every object (initialization flag, position, lifecycle) as
\* they were.
C14_SecondInstallChangesNothing ==
    [][\A id \in ObjectIDs :
        Called("install", id, NoPos)
        => ( /\ map' = map
             /\ (isInitialized /\ id \notin objects)
                => ( /\ last'.ret = "true"
                     /\ id \in objects'
                     /\ InstallObjectOp(InstallObjectOp(Here, id).w, id)
                            = Outcome(InstallObjectOp(Here, id).w, "false", "none", Null) )
             /\ (isInitialized /\ id \in objects)
                => ( /\ last'.ret = "false"
                     /\ ObjectsUnchanged
                     /\ UNCHANGED <<isInitialized, gameSession>> ) )]_vars

\* An object that is registered, initialized and placed has just been
\* installed again, and the call returned false.
C14_Witness ==
    /\ last.op = "install"
    /\ last.ret = "false"
    /\ last.id \in objects
    /\ objInitialized[last.id]
    /\ stage[last.id] = "placed"
    /\ Occupies(map, last.id, position[last.id])

\* C15: after a moveObject that returned a position p the object's stored
\* position is p, so that the old footprint of a following moveObject or
\* displaceObject of the object is the one at p.
C15_MoveUpdatesStoredPosition ==
    [][\A id \in ObjectIDs : \A pos \in Positions :
        (Called("move", id, pos) /\ last'.ret = "pos")
        => ( /\ position'[id] = pos
             /\ Writes(id, ObjSize(id), position'[id], NoPos)
                    = Strip(pos.x, pos.x + ObjSize(id).width,
                            pos.y, pos.y + ObjSize(id).height, Null) )]_vars

\* C16: an overlap is thrown only for a cell held by another identity: when
\* placeObject or moveObject throws it, the identity found in the cell is
\* not the one being written, and when init() throws it while placing the
\* k-th object of the registry, the identity found is not that object's.
C16_OverlapOnlyAgainstOthers ==
    [][/\ \A id \in ObjectIDs : \A pos \in Positions \cup {NoPos} :
            ( /\ Called("place", id, pos) \/ Called("move", id, pos)
              /\ last'.err = "overlap" )
            => last'.existing # id
       /\ Called("init", Null, NoPos)
            => \A k \in 1 .. Len(ObjOrder) :
                 LET w == [Here EXCEPT !.isInitialized = TRUE]
                     prev == InitObjects(w, k - 1)
                     this == InitObjects(w, k)
                 IN  ( /\ prev.ret # "throw"
                       /\ this.ret = "throw"
                       /\ this.err = "overlap" )
                     => this.existing # ObjOrder[k]]_vars

\* C17: installObject, uninstallObject, placeObject and displaceObject on a
\* World that is not initialized (never initialized, or disposed of) throw
\* the not-initialized error and change neither the registry nor the buffer.
C17_NotInitializedThrows ==
    [][( /\ calls' = calls + 1
         /\ last'.op \in {"install", "uninstall", "place", "displace"}
         /\ ~isInitialized )
        => ( /\ last'.ret = "throw"
             /\ last'.err = "notinit"
             /\ objects' = objects
             /\ map' = map )]_vars

\* displaceObject has just thrown the not-initialized error on a World that
\* was disposed of.
C17_Witness ==
    /\ map = << >>
    /\ ~isInitialized
    /\ last.op = "displace"
    /\ last.ret = "throw"
    /\ last.err = "notinit"

\* C18: moveObject on a World that is not initialized (never initialized, or
\* disposed of) throws the not-initialized error; it does not return.
C18_MoveNotInitializedThrows ==
    [][\A id \in ObjectIDs : \A pos \in Positions :
        (Called("move", id, pos) /\ ~isInitialized)
        => (last'.ret = "throw" /\ last'.err = "notinit")]_vars

\* C19: on an initialized World, uninstallObject and displaceObject of an
\* identity that is not registered return false, placeObject and moveObject
\* of it return none; none of them throws, and the registry, the buffer and
\* every object are as before.
C19_UnknownIdentityIsOrdinaryFailure ==
    [][( /\ calls' = calls + 1
         /\ last'.op \in {"uninstall", "place", "displace", "move"}
         /\ isInitialized
         /\ last'.id \notin objects )
        => ( /\ last'.ret = IF last'.op \in {"uninstall", "displace"}
                            THEN "false" ELSE "none"
             /\ last'.err = "none"
             /\ map' = map
             /\ ObjectsUnchanged )]_vars

\* uninstallObject has just returned false for an identity that is not
\* registered, on an initialized World that holds another object.
C19_Witness ==
    /\ isInitialized
    /\ last.op = "uninstall"
    /\ last.id \notin objects
    /\ last.ret = "false"
    /\ \E o \in objects : Occupies(map, o, position[o])

\* C20: placeObject of a registered object at a position whose footprint is
\* not inside the world returns none without throwing, makes no setMapCell
\* call, leaves the buffer as it was, does not call the object's `placed`
\* (no lifecycle event) and leaves every stored position as it was.
C20_PlaceOutOfBoundsChangesNothing ==
    [][\A id \in {last'.id} \cap ObjectIDs :
       \A pos \in {last'.pos} \cap (Positions \cup {NoPos}) :
        ( /\ Called("place", id, pos)
          /\ isInitialized
          /\ id \in objects
          /\ ~InGrid(id, Target(id, pos)) )
        => ( /\ last'.ret = "none"
             /\ last'.err = "none"
             /\ RestructureMap(Here, id, ObjLayer(id), ObjSize(id),
                               NoPos, Target(id, pos)).run.log = << >>
             /\ map' = map
             /\ stage' = stage
             /\ position' = position )]_vars

\* A registered, initialized two-cell object has just been refused a
\* placement whose first cell is inside the world and whose footprint is not.
C20_Witness ==
    /\ isInitialized
    /\ last.op = "place"
    /\ last.ret = "none"
    /\ last.id \in objects
    /\ objInitialized[last.id]
    /\ last.pos \in Cells
    /\ ~InGrid(last.id, last.pos)

\* ------------------------------------------------------------------------
\* Construction, teardown and the remaining operations.

\* The state after `new World(props)` when the objects handed to the
\* constructor were themselves constructed at any position inside the world.
InitBuilt ==
    /\ isInitialized = FALSE
    /\ gameSession = FALSE
    /\ objects \in SUBSET ObjectIDs
    /\ map = EmptyMap
    /\ position \in {p \in [ObjectIDs -> InBounds] :
                        \A id \in ObjectIDs : InGrid(id, p[id])}
    /\ objInitialized = [id \in IDs |-> FALSE]
    /\ stage = [id \in IDs |-> "created"]
    /\ objEventCenter = [id \in IDs |-> FALSE]
    /\ subscriptions = [id \in IDs |-> 0]
    /\ players = {}
    /\ facing = [id \in PlayerIDs |-> RIGHT]
    /\ statePlayers = << >>
    /\ clock = NewClock
    /\ last = NoCall
    /\ calls = 0

\* The owner of a World so built calls init, with or without a session.
NextBuilt == \E session \in BOOLEAN : WorldInit(session)

SpecBuilt == InitBuilt /\ [][NextBuilt]_vars

\* C21: the first init() of a World constructed with objects whose
\* footprints are inside the world and pairwise disjoint (as rectangles,
\* whatever their layers) returns normally, marks the World initialized,
\* initializes every object of the registry and places it: every cell of
\* its footprint reads as the object on its layer.
C21_InitPlacesEveryObject ==
    [][( /\ Called("init", Null, NoPos)
         /\ calls = 0
         /\ \A o \in objects : InGrid(o, position[o])
         /\ \A o1 \in objects : \A o2 \in objects \ {o1} :
              FootprintOf(o1, position[o1]) \cap FootprintOf(o2, position[o2]) = {} )
        => ( /\ isInitialized'
             /\ last'.ret = "none"
             /\ \A o \in objects :
                  /\ o \in objects'
                  /\ objInitialized'[o]
                  /\ stage'[o] = "placed"
                  /\ Occupies(map', o, position[o]) )]_vars

\* C22: World[Symbol.dispose] leaves the registry empty, the buffer without
\* any cell and the World not initialized; every object that was registered
\* had not been disposed of and now is, the objects outside the registry are
\* as they were, and installObject, uninstallObject, placeObject and
\* displaceObject on the World it leaves throw the not-initialized error.
C22_TeardownCascades ==
    [][Called("dispose", Null, NoPos)
        => ( /\ objects' = {}
             /\ map' = << >>
             /\ ~isInitialized'
             /\ \A id \in objects : stage[id] # "disposed" /\ stage'[id] = "disposed"
             /\ \A id \in ObjectIDs \ objects : stage'[id] = stage[id]
             /\ \A id \in ObjectIDs :
                  LET w == DisposeOp(Here).w
                  IN  /\ InstallObjectOp(w, id) = Outcome(w, "throw", "notinit", Null)
                      /\ UninstallObjectOp(w, id) = Outcome(w, "throw", "notinit", Null)
                      /\ PlaceObjectOp(w, id, NoPos) = Outcome(w, "throw", "notinit", Null)
                      /\ DisplaceObjectOp(w, id) = Outcome(w, "throw", "notinit", Null) )]_vars

\* A World that had been initialized with all the objects has just been
\* disposed of.
C22_Witness ==
    /\ last.op = "dispose"
    /\ objects = {}
    /\ map = << >>
    /\ calls = 2
    /\ \A id \in ObjectIDs : objInitialized[id] /\ stage[id] = "disposed"

\* C23: uninstallObject of a registered object on an initialized World
\* returns true, removes that object and no other from the registry,
\* disposes of it, and leaves the buffer (the cells holding the identity
\* included), the World's flags and every other object as they were.
C23_UninstallKeepsCells ==
    [][( /\ calls' = calls + 1
         /\ last'.op = "uninstall"
         /\ isInitialized
         /\ last'.id \in objects )
        => ( /\ last'.ret = "true"
             /\ objects' = objects \ {last'.id}
             /\ stage'[last'.id] = "disposed"
             /\ map' = map
             /\ UNCHANGED <<isInitialized, gameSession, position, objInitialized,
                            objEventCenter, subscriptions>>
             /\ \A o \in ObjectIDs \ {last'.id} : stage'[o] = stage[o] )]_vars

\* A placed object has just been uninstalled: it is out of the registry and
\* disposed of, its cells still read as the object, and another object is
\* still registered and placed.
C23_Witness ==
    /\ last.op = "uninstall"
    /\ last.ret = "true"
    /\ last.id \notin objects
    /\ stage[last.id] = "disposed"
    /\ Occupies(map, last.id, position[last.id])
    /\ \E o \in objects : stage[o] = "placed" /\ Occupies(map, o, position[o])

\* C24: on an initialized World, installAndPlaceObject of an object whose
\* identity is registered returns none and changes neither the registry,
\* the buffer nor any object; of an object that is not registered, it
\* returns (or throws) what placeObject at the object's own position does
\* on the World that installObject leaves, and leaves the World that this
\* placeObject leaves.
C24_InstallAndPlaceComposes ==
    [][( /\ calls' = calls + 1
         /\ last'.op = "installAndPlace"
         /\ isInitialized )
        => LET id == last'.id
               r == PlaceObjectOp(InstallObjectOp(Here, id).w, id, position[id])
           IN  IF id \in objects
               THEN /\ last'.ret = "none"
                    /\ last'.err = "none"
                    /\ map' = map
                    /\ ObjectsUnchanged
               ELSE /\ InstallObjectOp(Here, id).ret = "true"
                    /\ last' = Call("installAndPlace", id, NoPos, r)
                    /\ Become(r.w)]_vars

\* installAndPlaceObject has just returned none for an object that is
\* registered and placed.
C24_Witness ==
    /\ isInitialized
    /\ last.op = "installAndPlace"
    /\ last.ret = "none"
    /\ last.err = "none"
    /\ last.id \in objects
    /\ stage[last.id] = "placed"
    /\ Occupies(map, last.id, position[last.id])

\* ------------------------------------------------------------------------
\* Reading the buffer.

\* The sequences of at most MaxLookups positions inside the world.
LookupInputs == UNION {[1 .. n -> InBounds] : n \in 1 .. MaxLookups}

\* World.lookupByLayer(layer, ...positions): it reads `_map[y][x + layer]`
\* for each position in turn, which is a TypeError on a row the buffer does
\* not have; it writes nothing.
LookupByLayerOp(w, layer, ps) ==
    IF \E k \in 1 .. Len(ps) : ps[k].y \notin DOMAIN w.map
    THEN [w |-> w, ret |-> "throw", err |-> "type", ids |-> << >>]
    ELSE [w |-> w, ret |-> "ids", err |-> "none",
          ids |-> LookupByLayer(w.map, layer, ps)]

\* The record of a lookupByLayer call: that of any call, with the layer and
\* the positions asked for and the identities answered.
LookupCall(layer, ps, r) ==
    [op |-> "lookup", id |-> Null, pos |-> NoPos, ret |-> r.ret, at |-> NoPos,
     err |-> r.err, existing |-> Null, layer |-> layer, positions |-> ps,
     ids |-> r.ids]

LookupByLayerCall(layer, ps) ==
    LET r == LookupByLayerOp(Here, layer, ps)
    IN  /\ Counted
        /\ Become(r.w)
        /\ last' = LookupCall(layer, ps, r)

\* A World (used without a session) whose caller also reads it.
NextLookup ==
    \/ Step({FALSE})
    \/ \E layer \in Layers : \E ps \in LookupInputs : LookupByLayerCall(layer, ps)

SpecLookup == Init /\ [][NextLookup]_vars

\* C25: lookupByLayer(layer, p1..pn) with positions inside the world, on a
\* World that has not been disposed of, returns n results in the order of
\* the positions, the i-th being the identity the layer holds at pi or null
\* when it holds none, and changes neither the World nor any object.
C25_LookupReadsTheLayer ==
    [][( /\ calls' = calls + 1
         /\ last'.op = "lookup"
         /\ map # << >> )
        => ( /\ last'.ret = "ids"
             /\ Len(last'.ids) = Len(last'.positions)
             /\ \A k \in 1 .. Len(last'.positions) :
                  last'.ids[k] = Holds(map, last'.layer, last'.positions[k].x,
                                       last'.positions[k].y)
             /\ UNCHANGED <<isInitialized, gameSession, objects, map, position,
                            objInitialized, stage, objEventCenter,
                            subscriptions>> )]_vars

\* ------------------------------------------------------------------------
\* More on notifications.

\* The objectIntersect calls of the placeObject, installAndPlaceObject or
\* moveObject call being made, when it reaches restructureMap.
NotesOf(op, id, pos) ==
    IF op = "move" THEN (IF id \in objects THEN MoveNotes(id, pos) ELSE << >>)
    ELSE IF op = "place" THEN (IF id \in objects THEN PlaceNotes(id, pos) ELSE << >>)
    ELSE IF op = "installAndPlace"
    THEN (IF id \notin objects THEN PlaceNotes(id, NoPos) ELSE << >>)
    ELSE << >>

\* C26: every objectIntersect call made during a placeObject,
\* installAndPlaceObject or moveObject on an initialized World names at
\* least one other occupant, and none of the occupants it names is the
\* initiator.
C26_NeverNotifiedAgainstItself ==
    [][(calls' = calls + 1 /\ isInitialized)
        => LET notes == NotesOf(last'.op, last'.id, last'.pos)
           IN  \A k \in 1 .. Len(notes) :
                 /\ Len(notes[k][2]) > 0
                 /\ \A j \in 1 .. Len(notes[k][2]) : notes[k][2][j] # notes[k][1]]_vars

\* ------------------------------------------------------------------------
\* Events published by the event center.

\* What a publication did so far: the world, the first error thrown inside
\* a subscriber, the number of Brick.exploded calls and the number of
\* World.displaceObject calls they made.
Published(w) == [w |-> w, err |-> "none", callbacks |-> 0, gridCalls |-> 0]

\* The subscribers of object id, n of them still to be served, receive a
\* BOMB_EXPLODED event naming the object: each live one calls
\* Brick.exploded, which calls World.displaceObject(id) when the brick has a
\* world; a displaced brick unsubscribes them all.
RECURSIVE Exploded(_, _, _)
Exploded(e, id, n) ==
    IF n = 0 \/ e.w.subscriptions[id] = 0 THEN e
    ELSE IF ~e.w.objInitialized[id]
    THEN Exploded([e EXCEPT !.callbacks = @ + 1], id, n - 1)
    ELSE LET r == DisplaceObjectOp(e.w, id)
         IN  Exploded([w |-> r.w,
                       err |-> IF e.err = "none" THEN r.err ELSE e.err,
                       callbacks |-> e.callbacks + 1,
                       gridCalls |-> e.gridCalls + 1], id, n - 1)

\* EventCenter.bombExploded(bombID, ownerPlayerID, affectedObjectIDs): the
\* event goes to the subscribers of the first k objects.
RECURSIVE BombExplodedTo(_, _, _)
BombExplodedTo(w, affected, k) ==
    IF k = 0 THEN Published(w)
    ELSE LET prev == BombExplodedTo(w, affected, k - 1)
             id == ObjOrder[k]
         IN  IF id \in affected
             THEN Exploded(prev, id, prev.w.subscriptions[id])
             ELSE prev

BombExplodedOp(w, affected) == BombExplodedTo(w, affected, Len(ObjOrder))

\* The record of a publication: that of any call, with the identities
\* named and what the subscribers did.
EventCall(affected, r) ==
    [op |-> "bombExploded", id |-> Null, pos |-> NoPos, ret |-> "none",
     at |-> NoPos, err |-> r.err, existing |-> Null, affected |-> affected,
     callbacks |-> r.callbacks, gridCalls |-> r.gridCalls]

\* Someone publishes a bomb explosion on the session's event center.
BombExploded(affected) ==
    LET r == BombExplodedOp(Here, affected)
    IN  /\ Counted
        /\ gameSession
        /\ Become(r.w)
        /\ last' = EventCall(affected, r)

\* A World owned by a game session, on whose event center bomb explosions
\* are published.
NextEvents ==
    \/ Step({TRUE})
    \/ \E affected \in SUBSET ObjectIDs : BombExploded(affected)

SpecEvents == Init /\ [][NextEvents]_vars

\* C27: a bomb explosion that names only objects that have been disposed of
\* (by uninstallObject or by the World's disposal) runs no Brick.exploded
\* callback, makes no World.displaceObject call, throws nothing inside a
\* subscriber and leaves the World and every object as they were.
C27_DisposedObjectsAreUnsubscribed ==
    [][( /\ calls' = calls + 1
         /\ last'.op = "bombExploded"
         /\ \A id \in last'.affected : stage[id] = "disposed" )
        => ( /\ last'.callbacks = 0
             /\ last'.gridCalls = 0
             /\ last'.err = "none"
             /\ map' = map
             /\ UNCHANGED isInitialized
             /\ ObjectsUnchanged )]_vars

\* ------------------------------------------------------------------------
\* The order of a write and its notification.

\* The setMapCell calls of the call being made: none when restructureMap
\* returns at its bounds check.
WritesOf(op, id, pos) ==
    IF op = "displace" THEN Writes(id, ObjSize(id), position[id], NoPos)
    ELSE IF OutOfBounds(ObjSize(id), Target(id, pos)) THEN << >>
    ELSE IF op = "move" THEN Writes(id, ObjSize(id), position[id], pos)
    ELSE Writes(id, ObjSize(id), NoPos, Target(id, pos))

\* The setMapCell calls ws[k], ws[k+1], ... made in turn from the running
\* state st (a throw ends them): each one that sends a notification is a
\* write of the identity id on an initialized World, sends one notification,
\* with id as initiator, and leaves the cell it addressed reading as id,
\* and the same call on a World not initialized sends none.
RECURSIVE NotifiedAfterWrite(_, _, _, _, _)
NotifiedAfterWrite(st, ws, layer, id, k) ==
    IF k > Len(ws) \/ st.thrown # "none" THEN TRUE
    ELSE \A after \in {SetMapCell(st, ws[k].x, ws[k].y, layer, ws[k].v)} :
           /\ Len(after.notes) > Len(st.notes)
                => ( /\ ws[k].v = id
                     /\ st.isInitialized
                     /\ Len(after.notes) = Len(st.notes) + 1
                     /\ after.notes[Len(after.notes)][1] = id
                     /\ Lookup(after.map, layer, ws[k].x, ws[k].y) = id
                     /\ SetMapCell([st EXCEPT !.isInitialized = FALSE],
                                   ws[k].x, ws[k].y, layer, ws[k].v).notes = st.notes )
           /\ NotifiedAfterWrite(after, ws, layer, id, k + 1)

\* C28: during a placeObject, installAndPlaceObject, moveObject or
\* displaceObject that reaches restructureMap (the World is initialized and
\* has its buffer; the object is registered, or is being installed), a
\* setMapCell call that sends a notification is a write of an identity i,
\* the notification names i as initiator, and the cell written reads as i
\* when the notification is sent; and the same setMapCell call made on a
\* World that is not initialized sends none.
C28_WritePrecedesNotification ==
    [][( /\ calls' = calls + 1
         /\ last'.op \in {"place", "installAndPlace", "move", "displace"}
         /\ isInitialized
         /\ last'.id \in objects \/ last'.op = "installAndPlace"
         /\ map # << >> )
        => \A ws \in {WritesOf(last'.op, last'.id, last'.pos)} :
             NotifiedAfterWrite(Run(map, isInitialized, gameSession), ws,
                                ObjLayer(last'.id), last'.id, 1)]_vars

\* A one-cell object has just been placed, on a World owned by a session, on
\* a cell for which setMapCell found another occupant, and so notified the
\* event center.
C28_Witness ==
    /\ isInitialized
    /\ gameSession
    /\ last.op = "place"
    /\ last.ret = "pos"
    /\ ObjSize(last.id) = [width |-> 1, height |-> 1]
    /\ Lookup(map, ObjLayer(last.id), last.at.x, last.at.y) = last.id
    /\ Len(Intersected(map, last.at.x, last.at.y, ObjLayer(last.id), 0)) > 0

\* ------------------------------------------------------------------------
\* Objects initialized by their creator.

\* The creator of an object calls its init, with or without an event center
\* in the context.
ObjectInitCall(id, eventCenter) ==
    LET w == ObjectInit(Here, id, eventCenter)
    IN  /\ Counted
        /\ stage[id] # "disposed"
        /\ Become(w)
        /\ last' = Call("objectInit", id, NoPos, Outcome(w, "none", "none", Null))

\* A World whose objects may have been initialized before the World sees
\* them.
NextObjects ==
    \/ \E session \in BOOLEAN : WorldInit(session)
    \/ \E id \in ObjectIDs : InstallObject(id)
    \/ \E id \in ObjectIDs : \E eventCenter \in BOOLEAN : ObjectInitCall(id, eventCenter)

SpecObjects == Init /\ [][NextObjects]_vars

\* C29: init called on an object that is already initialized changes
\* nothing: the context bound first is kept and no lifecycle event is
\* emitted; and World.initObject calls init only on an object that reports
\* itself not initialized, so that init() and installObject leave the
\* context and the lifecycle of an already initialized object they do not
\* place as they were.
C29_InitIsIdempotent ==
    [][( /\ calls' = calls + 1
         /\ last'.op \in {"objectInit", "install", "init"} )
        => \A id \in ObjectIDs :
             objInitialized[id]
             => ( /\ ~CallsInit(Here, id)
                  /\ \A eventCenter \in BOOLEAN : ObjectInit(Here, id, eventCenter) = Here
                  /\ objInitialized'[id]
                  /\ objEventCenter'[id] = objEventCenter[id]
                  /\ (last'.op = "objectInit" /\ last'.id = id)
                       => (map' = map /\ ObjectsUnchanged)
                  /\ last'.op = "install" => stage'[id] = stage[id]
                  /\ stage'[id] = "initialized" => stage[id] = "initialized" )]_vars

\* An object initialized by its creator without an event center has just
\* been installed in a World owned by a session, and has kept its context.
C29_Witness ==
    /\ last.op = "install"
    /\ last.ret = "true"
    /\ gameSession
    /\ last.id \in objects
    /\ objInitialized[last.id]
    /\ ~objEventCenter[last.id]

\* ------------------------------------------------------------------------
\* A World that its owner has initialized.

\* `new World(props)` with the objects objs.
Built(objs) ==
    [isInitialized |-> FALSE, gameSession |-> FALSE, objects |-> objs,
     map |-> EmptyMap,
     position |-> [id \in IDs |-> ObjInitPosition(id)],
     objInitialized |-> [id \in IDs |-> FALSE],
     stage |-> [id \in IDs |-> "created"],
     objEventCenter |-> [id \in IDs |-> FALSE],
     subscriptions |-> [id \in IDs |-> 0],
     players |-> {},
     facing |-> [id \in PlayerIDs |-> RIGHT],
     statePlayers |-> << >>,
     clock |-> NewClock]

\* The state after `new World(props)` and `world.init()`, from which the
\* callers' calls are counted.
InitReady ==
    \E objs \in SUBSET ObjectIDs :
        LET r == InitOp(Built(objs), FALSE)
        IN  /\ isInitialized = r.w.isInitialized
            /\ gameSession = r.w.gameSession
            /\ objects = r.w.objects
            /\ map = r.w.map
            /\ position = r.w.position
            /\ objInitialized = r.w.objInitialized
            /\ stage = r.w.stage
            /\ objEventCenter = r.w.objEventCenter
            /\ subscriptions = r.w.subscriptions
            /\ players = r.w.players
            /\ facing = r.w.facing
            /\ statePlayers = r.w.statePlayers
            /\ clock = r.w.clock
            /\ last = Call("init", Null, NoPos, r)
            /\ calls = 0

SpecReady == InitReady /\ [][Next]_vars

\* The cells of the buffer, <<row, column>>, that hold the identity.
Holding(m, id) ==
    {rc \in UNION {{<<y, i>> : i \in DOMAIN m[y]} : y \in DOMAIN m} :
        m[rc[1]][rc[2]] = id}

\* C30: placeObject of a registered object whose last lifecycle event is
\* "displaced", at a position whose footprint is inside the world and empty
\* on the object's layer, returns the position and makes the object placed
\* again, and the buffer then holds the identity in the cells of that
\* footprint and in no other cell.
C30_DisplacedReturnsToPlaced ==
    [][( /\ calls' = calls + 1
         /\ last'.op = "place"
         /\ isInitialized
         /\ last'.id \in objects
         /\ stage[last'.id] = "displaced" )
        => LET id == last'.id
               at == Target(id, last'.pos)
           IN  (InGrid(id, at) /\ AllEmpty(map, ObjLayer(id), FootprintOf(id, at)))
               => ( /\ last'.ret = "pos"
                    /\ last'.at = at
                    /\ stage'[id] = "placed"
                    /\ Holding(map', id)
                         = {<<c.y, ColumnOf(c.x, ObjLayer(id))>> : c \in FootprintOf(id, at)} )]_vars

\* ------------------------------------------------------------------------
\* Footprints of placed objects.

\* C31: no two distinct registered objects that are both placed, on the same
\* layer, have intersecting footprints, a footprint being the rectangle of
\* the object's stored position and size.
C31_PlacedFootprintsDisjoint ==
    \A o1 \in objects : \A o2 \in objects \ {o1} :
        ( /\ ObjLayer(o1) = ObjLayer(o2)
          /\ stage[o1] = "placed"
          /\ stage[o2] = "placed" )
        => FootprintOf(o1, position[o1]) \cap FootprintOf(o2, position[o2]) = {}

\* ------------------------------------------------------------------------
\* Displacing an object that is not placed.

\* C32: displaceObject of a registered object that is not placed (its last
\* lifecycle event is not "placed") on an initialized World does not throw,
\* and every cell of the buffer that held the identity of another object
\* holds it afterwards.
C32_DisplaceUnplacedSparesOthers ==
    [][( /\ calls' = calls + 1
         /\ last'.op = "displace"
         /\ isInitialized
         /\ last'.id \in objects
         /\ stage[last'.id] # "placed" )
        => ( /\ last'.ret # "throw"
             /\ \A y \in DOMAIN map : \A i \in DOMAIN map[y] :
                  map[y][i] \notin {Null, last'.id} => map'[y][i] = map[y][i] )]_vars

\* ------------------------------------------------------------------------
\* The game session: its players, and the game state that captures them.

\* The handler of the facing$ subscription GameState.capturePlayer makes:
\* `this._players.find((player) => player.id === player.id)` compares each
\* entry with itself, so it finds the first entry, and sets its facing.
FacingHeard(entries, f) ==
    IF entries = << >> THEN entries
    ELSE [entries EXCEPT ![1].facing = f]

\* GameState.capturePlayer(player): an entry is pushed, and the facing$
\* subscription (a BehaviorSubject behind it) hears the player's facing at
\* once.
CapturePlayer(w, id) ==
    [w EXCEPT !.statePlayers =
        FacingHeard(Append(@, [id |-> id, facing |-> w.facing[id]]), w.facing[id])]

\* The facing$ subscriptions of the game state to the player: one for each
\* capture of a player that has not been disposed of.
RECURSIVE FacingSubscriptions(_, _)
FacingSubscriptions(entries, id) ==
    IF entries = << >> THEN 0
    ELSE (IF Head(entries).id = id THEN 1 ELSE 0)
         + FacingSubscriptions(Tail(entries), id)

\* Every subscription hears the facing in turn.
RECURSIVE HeardBy(_, _, _)
HeardBy(entries, f, n) ==
    IF n = 0 THEN entries ELSE HeardBy(FacingHeard(entries, f), f, n - 1)

\* `_facingSubject.next(facing)` with a facing that differs from the current
\* one: the player faces it and the subscribers of facing$ hear it.
SetFacing(w, id, f) ==
    [w EXCEPT !.facing[id] = f,
              !.statePlayers = HeardBy(@, f, FacingSubscriptions(@, id))]

\* GameSession.addPlayer(player).
AddPlayerOp(w, id) ==
    LET w1 == [w EXCEPT !.players = @ \cup {id}]
        i == InstallObjectOp(w1, id)
    IN  IF i.ret = "throw" THEN i
        ELSE LET p == PlaceObjectOp(i.w, id, NoPos)
             IN  IF p.ret = "throw" THEN p
                 ELSE Outcome(CapturePlayer(p.w, id), "none", "none", Null)

\* GameSession.removePlayer(playerID).
RemovePlayerOp(w, id) ==
    LET u == UninstallObjectOp([w EXCEPT !.players = @ \ {id}], id)
    IN  IF u.ret = "throw" THEN u
        ELSE Outcome(u.w, "none", "none", Null)

\* The cell one step from pos in the direction f (MOVEMENT_SPEED is 1).
Destination(pos, f) ==
    CASE f = UP    -> [x |-> pos.x, y |-> pos.y - 1]
      [] f = DOWN  -> [x |-> pos.x, y |-> pos.y + 1]
      [] f = LEFT  -> [x |-> pos.x - 1, y |-> pos.y]
      [] f = RIGHT -> [x |-> pos.x + 1, y |-> pos.y]

\* A move that stores the destination whatever moveObject returned.
PlayerMoveStoringAlways(w, id, f) ==
    IF ~w.objInitialized[id] THEN w
    ELSE IF w.facing[id] # f THEN [w EXCEPT !.facing[id] = f]
    ELSE LET m == MoveObjectOp(w, id, Destination(w.position[id], f))
         IN  [m.w EXCEPT !.position[id] = Destination(w.position[id], f)]

\* Player.move(facing): nothing without a world; a new direction is only
\* faced; otherwise moveObject to the next cell, and the position moveObject
\* returned, if any, is stored (what it throws is caught and logged).
PlayerMove(w, id, f) ==
    IF ~w.objInitialized[id] THEN w
    ELSE IF w.facing[id] # f THEN SetFacing(w, id, f)
    ELSE LET m == MoveObjectOp(w, id, Destination(w.position[id], f))
         IN  IF m.ret = "pos" THEN [m.w EXCEPT !.position[id] = m.at]
             ELSE m.w

\* The keycode subscriptions of a player that are live: Player.placed makes
\* one with each event$ subscription, the "displaced" handler ends both, and
\* disposal completes the keycode subject.
KeycodeSubscriptions(w, id) ==
    IF w.stage[id] = "disposed" THEN 0 ELSE w.subscriptions[id]

\* A direction key fed to the player, as each of the n keycode subscriptions
\* handles it in turn.
RECURSIVE Keyed(_, _, _, _)
Keyed(w, id, f, n) ==
    IF n = 0 THEN w ELSE PlayerMove(Keyed(w, id, f, n - 1), id, f)

KeyOp(w, id, f) ==
    Outcome(Keyed(w, id, f, KeycodeSubscriptions(w, id)), "none", "none", Null)

\* The record of a call on the session; key is the direction of a key.
SessionCall(op, id, f, r) ==
    [op |-> op, id |-> id, pos |-> NoPos, ret |-> r.ret, at |-> r.at,
     err |-> r.err, existing |-> r.existing, key |-> f]

\* The server adds a player once, when its socket opens, and removes it
\* when the socket closes (a new socket has a new player).
AddPlayer(id) ==
    LET r == AddPlayerOp(Here, id)
    IN  /\ Counted
        /\ id \notin players
        /\ stage[id] # "disposed"
        /\ Become(r.w)
        /\ last' = SessionCall("addPlayer", id, Null, r)

RemovePlayer(id) ==
    LET r == RemovePlayerOp(Here, id)
    IN  /\ Counted
        /\ Become(r.w)
        /\ last' = SessionCall("removePlayer", id, Null, r)

\* A client of the player sends a direction key (Player.feed) that passes
\* the throttle of the keycode subscription.
KeyPress(id, f) ==
    LET r == KeyOp(Here, id, f)
    IN  /\ Counted
        /\ objInitialized[id]
        /\ Become(r.w)
        /\ last' = SessionCall("key", id, f, r)

\* `new GameSession(id, world)`, `session.init()` and the first player added.
InitPlaying ==
    \E objs \in SUBSET ObjectIDs : \E first \in PlayerIDs :
        \E r \in {AddPlayerOp(InitOp(Built(objs), TRUE).w, first)} :
            /\ isInitialized = r.w.isInitialized
            /\ gameSession = r.w.gameSession
            /\ objects = r.w.objects
            /\ map = r.w.map
            /\ position = r.w.position
            /\ objInitialized = r.w.objInitialized
            /\ stage = r.w.stage
            /\ objEventCenter = r.w.objEventCenter
            /\ subscriptions = r.w.subscriptions
            /\ players = r.w.players
            /\ facing = r.w.facing
            /\ statePlayers = r.w.statePlayers
            /\ clock = r.w.clock
            /\ last = SessionCall("addPlayer", first, Null, r)
            /\ calls = 0

NextPlaying ==
    \/ \E id \in PlayerIDs : AddPlayer(id)
    \/ \E id \in PlayerIDs : RemovePlayer(id)
    \/ \E id \in PlayerIDs : \E f \in Facings : KeyPress(id, f)

SpecPlaying == InitPlaying /\ [][NextPlaying]_vars


\* C33: after removePlayer(p) no cell of the buffer holds p's identity.
C33_RemovedPlayerLeavesNoCell ==
    [][( /\ calls' = calls + 1
         /\ last'.op = "removePlayer" )
        => Absent(map', last'.id)]_vars


\* The game state has an entry for the player.
Captured(entries, id) == \E k \in DOMAIN entries : entries[k].id = id

\* C34: addPlayer of a player that is not in the session is all or nothing:
\* when placing the player throws the overlap error, the player is
\* afterwards neither in the session's player map nor in the registry of the
\* World; otherwise it is in both, is placed, and has an entry in the game
\* state.
C34_AddPlayerAllOrNothing ==
    [][( /\ calls' = calls + 1
         /\ last'.op = "addPlayer"
         /\ isInitialized
         /\ last'.id \notin players
         /\ last'.id \notin objects )
        => IF last'.ret = "throw" /\ last'.err = "overlap"
           THEN last'.id \notin players' /\ last'.id \notin objects'
           ELSE /\ last'.id \in players'
                /\ last'.id \in objects'
                /\ stage'[last'.id] = "placed"
                /\ Captured(statePlayers', last'.id)]_vars


\* ------------------------------------------------------------------------
\* Players installed in a World by hand.

\* A World, initialized with or without a game session, in which the caller
\* installs and places players.
NextUnowned ==
    \/ \E session \in BOOLEAN : WorldInit(session)
    \/ \E id \in PlayerIDs : InstallObject(id)
    \/ \E id \in PlayerIDs : \E pos \in InBounds \cup {NoPos} : PlaceObject(id, pos)
    \/ \E id \in PlayerIDs : DisplaceObject(id)

SpecUnowned == Init /\ [][NextUnowned]_vars

\* C35: every object in the registry of an initialized World is
\* initialized.
C35_RegisteredAreInitialized ==
    isInitialized => \A id \in objects : objInitialized[id]

\* The consequence the invariant is meant to give: placeObject writes no
\* cell for an object that is not initialized.
UninitializedNeverWritten ==
    [][( /\ calls' = calls + 1
         /\ last'.op = "place"
         /\ ~objInitialized[last'.id] )
        => map' = map]_vars


\* ------------------------------------------------------------------------
\* Player movement.

\* C36: a direction key handled by a player (it has a live keycode
\* subscription): when the direction differs from the player's facing, the
\* player faces it and its position and the buffer are unchanged; when it is
\* the facing, the facing stays, the World is asked to move the player one
\* cell in that direction, and the stored position becomes that cell exactly
\* when moveObject returned a position, and is unchanged otherwise.
C36_KeyTurnsOrMovesOneCell ==
    [][( /\ calls' = calls + 1
         /\ last'.op = "key"
         /\ KeycodeSubscriptions(Here, last'.id) > 0 )
        => LET id == last'.id
               f == last'.key
               dest == Destination(position[id], f)
               m == MoveObjectOp(Here, id, dest)
           IN  IF facing[id] # f
               THEN /\ facing'[id] = f
                    /\ position' = position
                    /\ map' = map
               ELSE /\ facing' = facing
                    /\ (dest.x - position[id].x) * (dest.x - position[id].x)
                         + (dest.y - position[id].y) * (dest.y - position[id].y) = 1
                    /\ map' = m.w.map
                    /\ m.ret = "pos" => (m.at = dest /\ position'[id] = dest)
                    /\ m.ret # "pos" => position'[id] = position[id]
                    /\ \A o \in IDs \ {id} : position'[o] = position[o]]_vars

\* A player has just moved one cell on a key in the direction it faces.
C36_Witness ==
    /\ last.op = "key"
    /\ last.key = facing[last.id]
    /\ stage[last.id] = "placed"
    /\ position[last.id] = [x |-> 1, y |-> 0]
    /\ Lookup(map, GROUND, 1, 0) = last.id
    /\ Lookup(map, GROUND, 0, 0) = Null


\* ------------------------------------------------------------------------
\* The facing the game state records.

\* C37: when a key changes the facing of a player, the game state sets the
\* facing of that player's entry to the new facing, and the entry of every
\* other player keeps the facing it had.
C37_FacingUpdatesOwnEntryOnly ==
    [][( /\ calls' = calls + 1
         /\ last'.op = "key"
         /\ facing'[last'.id] # facing[last'.id]
         /\ Captured(statePlayers, last'.id) )
        => /\ Len(statePlayers') = Len(statePlayers)
           /\ \A k \in DOMAIN statePlayers :
                /\ statePlayers'[k].id = statePlayers[k].id
                /\ statePlayers'[k].facing =
                     IF statePlayers[k].id = last'.id THEN facing'[last'.id]
                     ELSE statePlayers[k].facing]_vars


\* ------------------------------------------------------------------------
\* Objects created from regions.

\* The largest width and height of a region handed to create.
MaxRegion == 3

\* The regions (x, y, width, height) a world store hands to create.
Regions == [x : 0 .. (Width - 1), y : 0 .. (Height - 1),
            width : 1 .. MaxRegion, height : 1 .. MaxRegion]

\* Brick.create(props) and Steel.create(props), which are the same code: the
\* positions of the objects returned, in order.  One object at (x, y); and,
\* unless width <= 1 and height <= 1, one for each yDelta in [1, height) and
\* xDelta in [1, width), in the order of the nested loops.
Create(region) ==
    LET x == region.x
        y == region.y
        w == Max(0, region.width - 1)
        h == Max(0, region.height - 1)
    IN  IF region.width <= 1 /\ region.height <= 1
        THEN <<[x |-> x, y |-> y]>>
        ELSE <<[x |-> x, y |-> y]>>
             \o [k \in 1 .. (w * h) |->
                   [x |-> x + 1 + ((k - 1) % w), y |-> y + 1 + ((k - 1) \div w)]]

\* The record of a create call: the class, the region and the positions of
\* the objects returned.
CreateCall(kind, region) ==
    [op |-> "create", id |-> Null, pos |-> NoPos, ret |-> "objects",
     at |-> NoPos, err |-> "none", existing |-> Null, kind |-> kind,
     region |-> region, created |-> Create(region)]

\* WorldStore.parseObjects calls the create of the kind for a region; the
\* World is not involved.
CreateObjects(kind, region) ==
    /\ Counted
    /\ last' = CreateCall(kind, region)
    /\ UNCHANGED <<isInitialized, gameSession, objects, map, position,
                   objInitialized, stage, objEventCenter, subscriptions,
                   players, facing, statePlayers, clock>>

NextCreate == \E kind \in {"brick", "steel"} : \E region \in Regions :
                  CreateObjects(kind, region)

SpecCreate == Init /\ [][NextCreate]_vars

\* The cells of a region.
RegionCells(region) ==
    [x : region.x .. (region.x + region.width - 1),
     y : region.y .. (region.y + region.height - 1)]

\* C38: create of a region with width >= 1 and height >= 1 returns
\* width * height objects, one at each cell of the region and none
\* elsewhere.
C38_CreateFillsTheRegion ==
    last.op = "create"
    => /\ Len(last.created) = last.region.width * last.region.height
       /\ {last.created[k] : k \in DOMAIN last.created} = RegionCells(last.region)


\* ------------------------------------------------------------------------
\* The clock.

\* Clock[Symbol.dispose](): "disposed" is emitted; the Clock installs no
\* handler for it and nothing assigns `_isDisposed`.
ClockDisposeOp(c) == [c EXCEPT !.disposeCalled = TRUE]

\* The subscribe function of the observable interval(delayMS) returns: it
\* returns at once on a disposed clock, and otherwise schedules the first
\* tick.
IntervalSubscribeOp(c, s) ==
    LET c1 == [c EXCEPT !.subscribed = @ \cup {s},
                        !.late = IF c.disposeCalled THEN @ \cup {s} ELSE @]
    IN  IF c.isDisposed THEN c1
        ELSE [c1 EXCEPT !.scheduled = @ \cup {s}]

\* The scheduled work runs: nothing for a closed subscriber; otherwise a
\* tick is emitted and the work is scheduled again.
TickOp(c, s) ==
    IF s \in c.closed THEN [c EXCEPT !.scheduled = @ \ {s}]
    ELSE [c EXCEPT !.ticks[s] = @ + 1]

\* The subscriber unsubscribes: it is closed and the teardown (the
\* subscription the scheduler returned) cancels the scheduled work.
IntervalUnsubscribeOp(c, s) ==
    [c EXCEPT !.closed = @ \cup {s}, !.scheduled = @ \ {s}]

\* A step of the clock; the World is not involved.
ClockStep(op, s, c) ==
    /\ Counted
    /\ clock' = c
    /\ last' = [op |-> op, id |-> Null, pos |-> NoPos, ret |-> "none",
                at |-> NoPos, err |-> "none", existing |-> Null,
                subscriber |-> s]
    /\ UNCHANGED <<isInitialized, gameSession, objects, map, position,
                   objInitialized, stage, objEventCenter, subscriptions,
                   players, facing, statePlayers>>

\* The owner of the clock disposes of it, once.
ClockDispose ==
    /\ ~clock.disposeCalled
    /\ ClockStep("clockDispose", Null, ClockDisposeOp(clock))

IntervalSubscribe(s) ==
    /\ s \notin clock.subscribed
    /\ ClockStep("subscribe", s, IntervalSubscribeOp(clock, s))

Tick(s) ==
    /\ s \in clock.scheduled
    /\ ClockStep("tick", s, TickOp(clock, s))

IntervalUnsubscribe(s) ==
    /\ s \in clock.subscribed \ clock.closed
    /\ ClockStep("unsubscribe", s, IntervalUnsubscribeOp(clock, s))

NextClock ==
    \/ ClockDispose
    \/ \E s \in Subscribers : IntervalSubscribe(s)
    \/ \E s \in Subscribers : Tick(s)
    \/ \E s \in Subscribers : IntervalUnsubscribe(s)

SpecClock == Init /\ [][NextClock]_vars

\* C39: a subscriber that subscribed to an interval after the clock was
\* disposed of has no work scheduled and has received no tick.
C39_NoTickAfterDispose ==
    \A s \in clock.late : s \notin clock.scheduled /\ clock.ticks[s] = 0

====
